---- MODULE Spec2Model ----
(***************************************************************************)
(* ThrottleX: the request-time gateway pipeline.                           *)
(*                                                                         *)
(* Two versions of the dispatcher exist in the repository:                 *)
(*   variant "A"  src/middleware.ts          (session gate, IP-keyed limit) *)
(*   variant "B"  src/unnamed/part_007       (API-key mode, /api/gate)     *)
(* Both carry the same RateLimiter class, logRequestToAPI and              *)
(* RouteConfigService.                                                     *)
(*                                                                         *)
(* Time is Date.now() in milliseconds.  Optional values (a field that may  *)
(* be undefined) are sequences of length 0 or 1.                           *)
(***************************************************************************)
EXTENDS Integers, Sequences, FiniteSets, TLC

VARIABLES
    now,        \* Date.now()
    tracker,    \* RateLimiter.tracker of one long-lived limiter instance
    result,     \* what the latest check() on that instance returned
    window,     \* per key: the calls made since the entry's window opened
    variant,    \* which version of the dispatcher is deployed
    pc,         \* where the request in hand stands in middleware()
    req,        \* the request in hand
    lookup,     \* how the route-config endpoint answered
    routeConfig,\* const routeConfig
    verification, \* const verification
    rl,         \* rateLimit, rateLimitKey, allowed, remaining
    proxy,      \* how the backend fetch ended
    resp,       \* the response middleware() returns
    logData,    \* the argument of the pending logRequestToAPI call
    logs,       \* the log records this request has emitted
    sink,       \* how the log sink answered each of them
    calls,      \* downstream calls made for this request
    run,        \* the run of like requests the one in hand belongs to
    stalled,    \* the call the request awaits will never be answered
    inflight,   \* the invocations of middleware() running at the same time
    quota,      \* the limit of the route those invocations all ask for
    store,      \* the rows of the route table
    admin,      \* the route-create and route-update requests being handled
    uniqueIndex,\* whether the table has a unique index on (serviceId, path, method)
    chain       \* the log requests sent since the request in hand came in

limiterVars == <<tracker, result, window>>

concVars == <<inflight, quota>>

adminVars == <<store, admin, uniqueIndex>>

requestVars == <<pc, req, lookup, routeConfig, verification, rl, proxy, resp,
                 logData, logs, sink, calls, stalled>>

gatewayVars == <<variant, pc, req, lookup, routeConfig, verification, rl, proxy,
                 resp, logData, logs, sink, calls, run, stalled>>

vars == <<now, tracker, result, window, variant, pc, req, lookup, routeConfig,
          verification, rl, proxy, resp, logData, logs, sink, calls, run,
          stalled, inflight, quota, store, admin, uniqueIndex, chain>>

----------------------------------------------------------------------------
(* Bounds of the model *)

TickMs == 30000       \* the clock advances in steps of TickMs
MaxNow == 90000       \* the clock stops here
MaxLimit == 2         \* limits passed to check() range over 0..MaxLimit
MaxRun == 3           \* like requests followed as one run
MaxInflight == 3      \* invocations of middleware() running at the same time
MaxStored == 2        \* rows the route table can hold
MaxChain == 3         \* log requests followed after one inbound request

(* Program constants *)

windowMs == 60000     \* RateLimiter constructor default
DefaultRateLimit == 100   \* routeConfig.rateLimit ?? 100

RateKeys == {"10.0.0.1", "k1:10.0.0.1"}

Limits == 0..MaxLimit

Max(a, b) == IF a >= b THEN a ELSE b

----------------------------------------------------------------------------
(* RateLimiter *)

\* new Map()
EmptyTracker == << >>

Has(t, key) == key \in DOMAIN t

\* Map.set
MapSet(t, key, entry) == (key :> entry) @@ t

\* check with the rejection test written count > limit.
check_RejectLate(trk, key, limit, t) ==
    IF ~Has(trk, key) \/ trk[key].resetTime < t
    THEN [tracker   |-> MapSet(trk, key, [count |-> 1, resetTime |-> t + windowMs]),
          allowed   |-> TRUE,
          remaining |-> limit - 1]
    ELSE IF trk[key].count > limit
    THEN [tracker   |-> trk,
          allowed   |-> FALSE,
          remaining |-> 0]
    ELSE LET n == trk[key].count + 1 IN
         [tracker   |-> MapSet(trk, key, [count |-> n, resetTime |-> trk[key].resetTime]),
          allowed   |-> TRUE,
          remaining |-> Max(0, limit - n)]

\* check with every admitted call restarting the window at the call's time.
check_Sliding(trk, key, limit, t) ==
    IF ~Has(trk, key) \/ trk[key].resetTime < t
    THEN [tracker   |-> MapSet(trk, key, [count |-> 1, resetTime |-> t + windowMs]),
          allowed   |-> TRUE,
          remaining |-> limit - 1]
    ELSE IF trk[key].count >= limit
    THEN [tracker   |-> trk,
          allowed   |-> FALSE,
          remaining |-> 0]
    ELSE LET n == trk[key].count + 1 IN
         [tracker   |-> MapSet(trk, key, [count |-> n, resetTime |-> t + windowMs]),
          allowed   |-> TRUE,
          remaining |-> Max(0, limit - n)]

\* RateLimiter.check(key, limit) at time t on the tracker trk: the tracker
\* afterwards and the returned { allowed, remaining }.
check(trk, key, limit, t) ==
    IF ~Has(trk, key) \/ trk[key].resetTime < t
    THEN [tracker   |-> MapSet(trk, key, [count |-> 1, resetTime |-> t + windowMs]),
          allowed   |-> TRUE,
          remaining |-> limit - 1]
    ELSE IF trk[key].count >= limit
    THEN [tracker   |-> trk,
          allowed   |-> FALSE,
          remaining |-> 0]
    ELSE LET n == trk[key].count + 1 IN
         [tracker   |-> MapSet(trk, key, [count |-> n, resetTime |-> trk[key].resetTime]),
          allowed   |-> TRUE,
          remaining |-> Max(0, limit - n)]

(* Values *)

Undefined == << >>

Opt(x) == <<x>>

Defined(o) == o # << >>

\* a ?? b
Coalesce(o, d) == IF Defined(o) THEN o[1] ELSE d

\* !s for an optional string: undefined and "" are falsy
Falsy(o) == ~Defined(o) \/ o[1] = ""

\* Paths are sequences of segments: "/api/gate/data" is <<"api","gate","data">>.
\* No path of the model carries percent-escapes, on which decodeURIComponent
\* and encodeURIComponent would act.
StartsWith(path, prefix) ==
    /\ Len(path) >= Len(prefix)
    /\ SubSeq(path, 1, Len(prefix)) = prefix

\* startsWith of a prefix that ends in "/"
StartsWithDir(path, prefix) ==
    /\ Len(path) > Len(prefix)
    /\ SubSeq(path, 1, Len(prefix)) = prefix

Paths ==
    { <<"api", "internal", "route", "update", "logs">>,
      <<"api", "users">>,
      <<"api", "gate", "data">>,
      <<"api", "gate", "bad">>,
      <<"api", "keyed">>,
      <<"api", "old">>,
      <<"api", "get", "user", "1">>,
      <<"dashboard", "home">> }

Methods == {"GET", "POST"}

\* request.headers.get("authorization"): absent, or its words split at " "
AuthHeaders == { Undefined, Opt(<<"Bearer">>), Opt(<<"Bearer", "tok">>) }

\* request.ip
Ips == { Undefined, Opt("10.0.0.1") }

\* session:  the better-auth session cookie getSessionCookie() reads
\* token:    the cookie "session_token" AuthService.validateSession reads
Requests ==
    [path : Paths, method : Methods, session : BOOLEAN, token : BOOLEAN,
     authorization : AuthHeaders, ip : Ips]

(* The route table behind the config endpoint *)

NoMiddlewares == Undefined

Middlewares(auth, apiKey, scopes) ==
    Opt([auth |-> auth, apiKey |-> apiKey, requiredScopes |-> scopes,
         cors |-> Undefined])

\* routeConfig.serviceMetadata: the backend service's own credentials
ServiceMetadata(authHeader, apiKey) ==
    Opt([authHeader |-> authHeader, apiKey |-> apiKey])

Routes ==
    { [id |-> "r-users", serviceId |-> "s1", path |-> <<"users">>, method |-> "GET",
       isActive |-> TRUE, targetUrl |-> "https://svc.example",
       middlewares |-> NoMiddlewares, rateLimit |-> Opt(2), cacheTtl |-> Opt(30),
       serviceMetadata |-> ServiceMetadata(Opt("X-Service-Key"), Opt("sk1"))],
      [id |-> "r-gate", serviceId |-> "s1", path |-> <<"gate", "data">>, method |-> "GET",
       isActive |-> TRUE, targetUrl |-> "https://svc.example",
       middlewares |-> Middlewares(FALSE, FALSE, {"read"}),
       rateLimit |-> Undefined, cacheTtl |-> Opt(60),
       serviceMetadata |-> ServiceMetadata(Opt("X-Service-Key"), Opt("sk1"))],
      [id |-> "r-bad", serviceId |-> "s2", path |-> <<"gate", "bad">>, method |-> "GET",
       isActive |-> TRUE, targetUrl |-> "http://exa mple",
       middlewares |-> NoMiddlewares, rateLimit |-> Opt(0), cacheTtl |-> Undefined,
       serviceMetadata |-> ServiceMetadata(Opt("X-Service-Key"), Undefined)],
      [id |-> "r-keyed", serviceId |-> "s2", path |-> <<"keyed">>, method |-> "POST",
       isActive |-> TRUE, targetUrl |-> "https://svc.example",
       middlewares |-> Middlewares(TRUE, TRUE, {"read", "write"}),
       rateLimit |-> Opt(1), cacheTtl |-> Undefined,
       serviceMetadata |-> Undefined],
      [id |-> "r-old", serviceId |-> "s1", path |-> <<"old">>, method |-> "GET",
       isActive |-> FALSE, targetUrl |-> "https://svc.example",
       middlewares |-> NoMiddlewares, rateLimit |-> Undefined, cacheTtl |-> Undefined,
       serviceMetadata |-> Undefined],
      [id |-> "r-dash", serviceId |-> "s1", path |-> <<"dashboard", "home">>,
       method |-> "GET", isActive |-> TRUE, targetUrl |-> "https://svc.example",
       middlewares |-> NoMiddlewares, rateLimit |-> Undefined, cacheTtl |-> Undefined,
       serviceMetadata |-> Undefined] }

\* The backend services the routes belong to, each with its own rateLimit.
Services ==
    { [id |-> "s1", rateLimit |-> Opt(1)],
      [id |-> "s2", rateLimit |-> Undefined] }

ServiceLimit(serviceId) ==
    (CHOOSE sv \in Services : sv.id = serviceId).rateLimit

\* new URL(s) throws unless s is an absolute, well-formed URL
WellFormedUrl(s) == s \in {"https://svc.example"}

\* prisma.route.findFirst({ where: { path, method, isActive: true } })
FindRoute(path, method) ==
    LET hits == {r \in Routes : r.path = path /\ r.method = method /\ r.isActive}
    IN  IF hits = {} THEN Undefined ELSE Opt(CHOOSE r \in hits : TRUE)

\* What the fetch of /api/routes/config yields: it throws, or answers with a
\* status and, when OK, the route's configuration as JSON.
LookupFaults == {"none", "status500", "throws"}

ConfigReply(path, method, fault) ==
    IF fault = "throws" THEN [threw |-> TRUE, ok |-> FALSE, json |-> Undefined]
    ELSE IF fault = "status500" THEN [threw |-> FALSE, ok |-> FALSE, json |-> Undefined]
    ELSE LET r == FindRoute(path, method) IN
         [threw |-> FALSE, ok |-> Defined(r), json |-> r]

\* pathname.replace(/^\/api/, "")
CleanPath(pathname) ==
    IF Len(pathname) >= 1 /\ pathname[1] = "api" THEN Tail(pathname) ELSE pathname

\* RouteConfigService.getRouteConfig: null on a thrown fetch and on any
\* non-OK answer.
getRouteConfig(pathname, method, fault) ==
    LET response == ConfigReply(CleanPath(pathname), method, fault) IN
    IF response.threw THEN Undefined
    ELSE IF ~response.ok THEN Undefined
    ELSE response.json

(* API keys *)

Key1 == [id |-> "k1", scopes |-> Opt({"read", "write"}), rateLimit |-> Opt(2),
         user |-> "u1"]

Key2 == [id |-> "k2", scopes |-> Opt({"write"}), rateLimit |-> Opt(1), user |-> "u2"]

\* data.key is handed on as parsed: a key object may come without its scopes
\* or without its rateLimit.
Key3 == [id |-> "k3", scopes |-> Undefined, rateLimit |-> Opt(2), user |-> "u3"]

Key4 == [id |-> "k4", scopes |-> Opt({"read", "write"}), rateLimit |-> Undefined,
         user |-> "u4"]

\* How /api/keys/verify answers: OK with a key, OK without one, not OK with
\* or without an error text, or the fetch throws.
VerifyReplies == {"key1", "key2", "key3", "key4", "noKey", "rejected",
                  "rejectedSilent", "throws"}

\* AuthService.verifyApiKey
verifyApiKey(reply) ==
    CASE reply = "throws" ->
            [valid |-> FALSE, key |-> Undefined,
             error |-> Opt("Internal server error during API key verification")]
      [] reply = "rejected" ->
            [valid |-> FALSE, key |-> Undefined, error |-> Opt("API key has expired")]
      [] reply = "rejectedSilent" ->
            [valid |-> FALSE, key |-> Undefined, error |-> Opt("API key verification failed")]
      [] reply = "noKey" ->
            [valid |-> TRUE, key |-> Undefined, error |-> Undefined]
      [] reply = "key1" ->
            [valid |-> TRUE, key |-> Opt(Key1), error |-> Undefined]
      [] reply = "key3" ->
            [valid |-> TRUE, key |-> Opt(Key3), error |-> Undefined]
      [] reply = "key4" ->
            [valid |-> TRUE, key |-> Opt(Key4), error |-> Undefined]
      [] OTHER ->
            [valid |-> TRUE, key |-> Opt(Key2), error |-> Undefined]

\* A session check that lets every request through.
validateSession_Always(r) == TRUE

\* AuthService.validateSession
validateSession(r) == r.token

\* The token read at index 0 of the split header.
ApiKeyOf_FirstWord(authHeader) ==
    IF ~Defined(authHeader) THEN Undefined
    ELSE IF Len(authHeader[1]) >= 1 THEN Opt(authHeader[1][1])
    ELSE Undefined

\* authHeader?.split(" ")[1]
ApiKeyOf(authHeader) ==
    IF ~Defined(authHeader) THEN Undefined
    ELSE IF Len(authHeader[1]) >= 2 THEN Opt(authHeader[1][2])
    ELSE Undefined

\* The scope test written with some() in place of every().
hasRequiredScopes_Some(requiredScopes, scopes) ==
    \E scope \in requiredScopes : scope \in scopes

\* requiredScopes.every(scope => verification.key.scopes.includes(scope))
hasRequiredScopes(requiredScopes, scopes) ==
    \A scope \in requiredScopes : scope \in scopes

(* What the middleware reads off a route *)

RequiresAuth(cfg) == Defined(cfg.middlewares) /\ cfg.middlewares[1].auth

RequiresApiKey(cfg) == Defined(cfg.middlewares) /\ cfg.middlewares[1].apiKey

\* routeConfig.middlewares?.requiredScopes || []
RequiredScopes(cfg) ==
    IF Defined(cfg.middlewares) THEN cfg.middlewares[1].requiredScopes ELSE {}

IsInternal(pathname) ==
    \/ StartsWith(pathname, <<"api", "internal">>)
    \/ StartsWith(pathname, <<"api", "auth">>)
    \/ StartsWithDir(pathname, <<"api", "routes">>)

IsApi(pathname) == StartsWithDir(pathname, <<"api">>)

IsGate(pathname) == StartsWithDir(pathname, <<"api", "gate">>)

\* part_007: the route is handled in API-key mode
ApiKeyMode(pathname, cfg) == IsGate(pathname) \/ RequiresApiKey(cfg)

\* request.ip || "unknown"
IpOf(r) == IF Falsy(r.ip) THEN "unknown" ELSE r.ip[1]

(* Backend and log sink *)

\* How the backend fetch ends: with the backend's status, or by throwing
\* (AbortSignal.timeout(5000) fired, or the connection failed).
ProxyReplies ==
    { [threw |-> FALSE, status |-> 200, reason |-> ""],
      [threw |-> FALSE, status |-> 500, reason |-> ""],
      [threw |-> TRUE,  status |-> 0, reason |-> "TimeoutError"],
      [threw |-> TRUE,  status |-> 0, reason |-> "fetch failed"] }

SinkReplies == {"201", "500", "throws"}

(* Responses *)

NoHeaders == << >>

JsonResponse(status, message, headers) ==
    [kind |-> "json", status |-> status, error |-> Opt(message), headers |-> headers]

\* NextResponse.redirect(new URL("/sign-in", request.url))
SignInRedirect ==
    [kind |-> "redirect", status |-> 307, error |-> Undefined,
     headers |-> ("Location" :> "/sign-in")]

\* NextResponse.next()
PassOn == [kind |-> "next", status |-> 200, error |-> Undefined, headers |-> NoHeaders]

ProxiedResponse(status, headers) ==
    [kind |-> "proxied", status |-> status, error |-> Undefined, headers |-> headers]

\* an exception that leaves middleware() uncaught
Unhandled == [kind |-> "unhandled", status |-> 500, error |-> Undefined,
              headers |-> NoHeaders]

RateLimitHeaders(rateLimit, remaining) ==
    ("X-RateLimit-Limit" :> ToString(rateLimit)) @@
    ("X-RateLimit-Remaining" :> ToString(remaining))

TooManyRequests(rateLimit) ==
    JsonResponse(429, "Rate limit exceeded",
                 ("Retry-After" :> "60") @@
                 ("X-RateLimit-Limit" :> ToString(rateLimit)) @@
                 ("X-RateLimit-Remaining" :> "0"))

(* Log records *)

LogRecord(site, statusCode, isError, message, cfg, keyId) ==
    [site |-> site, statusCode |-> statusCode, isError |-> isError,
     message |-> message,
     routeId |-> IF Defined(cfg) THEN Opt(cfg[1].id) ELSE Undefined,
     serviceId |-> IF Defined(cfg) THEN Opt(cfg[1].serviceId) ELSE Undefined,
     apiKeyId |-> keyId]

(* State of the limiter instance *)

\* The last call of check: its arguments, the clock reading it took (at), the
\* entry it found under the key (prior, Undefined for no entry) and what it
\* returned.
NoResult == [called |-> FALSE, key |-> "", limit |-> 0, at |-> 0,
             prior |-> Undefined, allowed |-> FALSE, remaining |-> 0]

NoWindow == [n |-> 0, limit |-> 0, uniform |-> FALSE, reopened |-> FALSE]

\* The calls of the window a check at time t falls in, counted against the
\* entry's resetTime as stored before the call: a call strictly before
\* resetTime continues the window, a call strictly after it opens the next
\* one, and a call at exactly resetTime is left unclassified (uniform = FALSE
\* until the next window opens).
WindowAfter(w, trk, key, limit, t) ==
    IF ~Has(trk, key)
    THEN [n |-> 1, limit |-> limit, uniform |-> TRUE, reopened |-> FALSE]
    ELSE IF t > trk[key].resetTime
    THEN [n |-> 1, limit |-> limit, uniform |-> TRUE, reopened |-> TRUE]
    ELSE IF t = trk[key].resetTime
    THEN [n |-> w.n + 1, limit |-> limit, uniform |-> FALSE, reopened |-> w.reopened]
    ELSE [n |-> w.n + 1, limit |-> limit,
          uniform |-> w.uniform /\ w.limit = limit, reopened |-> w.reopened]

(* State of the dispatcher *)

NoCalls == [lookup |-> 0, verify |-> 0, check |-> 0, proxy |-> 0]

NoRun == [shape |-> Undefined, start |-> 0, n |-> 0]

\* No request in hand.
Idle ==
    /\ pc = "idle"
    /\ req = Undefined
    /\ lookup = Undefined
    /\ routeConfig = Undefined
    /\ verification = Undefined
    /\ rl = Undefined
    /\ proxy = Undefined
    /\ resp = Undefined
    /\ logData = Undefined
    /\ logs = << >>
    /\ sink = << >>
    /\ calls = NoCalls
    /\ stalled = FALSE

\* An invocation of middleware() that has not been made yet.
NotCalled == [stage |-> "none", allowed |-> FALSE, remaining |-> 0]

Handlers == 1..MaxInflight

NoneInflight ==
    /\ inflight = [h \in Handlers |-> NotCalled]
    /\ quota = 1

\* A handler of the route administration API with no request.
NoOp == [stage |-> "none", op |-> "", id |-> 0, serviceId |-> Undefined,
         path |-> Undefined, method |-> Undefined, status |-> 0]

AdminHandlers == {"h1", "h2"}

\* An empty route table and no administration request.
NoAdmin ==
    /\ store = {}
    /\ admin = [h \in AdminHandlers |-> NoOp]
    /\ uniqueIndex = FALSE

LimiterIdle ==
    /\ tracker = EmptyTracker
    /\ result = NoResult
    /\ window = [k \in RateKeys |-> NoWindow]

LimiterInit ==
    /\ now = 0
    /\ chain = 0
    /\ LimiterIdle
    /\ variant = "A"
    /\ Idle
    /\ run = NoRun
    /\ NoneInflight
    /\ NoAdmin

Init ==
    /\ now = 0
    /\ chain = 0
    /\ LimiterIdle
    /\ variant \in {"A", "B"}
    /\ Idle
    /\ run = NoRun
    /\ NoneInflight
    /\ NoAdmin

\* Requests for one route, from one address and with one API key, are about
\* to arrive together; the route's rateLimit is quota.
ConcurrentInit ==
    /\ now = 0
    /\ chain = 0
    /\ LimiterIdle
    /\ variant \in {"A", "B"}
    /\ Idle
    /\ run = NoRun
    /\ inflight = [h \in Handlers |-> NotCalled]
    /\ quota \in 1..MaxLimit
    /\ NoAdmin

----------------------------------------------------------------------------
(* The limiter instance *)

\* One call rateLimiter.check(key, limit) on the long-lived instance.
LimiterCheck(key, limit) ==
    /\ window[key].n <= MaxLimit + 1
    /\ LET r == check(tracker, key, limit, now) IN
       /\ tracker' = r.tracker
       /\ result' = [called |-> TRUE, key |-> key, limit |-> limit, at |-> now,
                     prior |-> IF Has(tracker, key) THEN Opt(tracker[key])
                               ELSE Undefined,
                     allowed |-> r.allowed, remaining |-> r.remaining]
       /\ window' = [window EXCEPT ![key] = WindowAfter(@, tracker, key, limit, now)]
    /\ UNCHANGED <<now, chain, gatewayVars, concVars, adminVars>>

\* Time passes (between requests).  A run ends with the window its first
\* request opened.
Tick ==
    /\ pc = "idle"
    /\ now + TickMs <= MaxNow
    /\ now' = now + TickMs
    /\ run' = IF Defined(run.shape) /\ now' >= run.start + windowMs THEN NoRun ELSE run
    /\ UNCHANGED <<chain, limiterVars, concVars, adminVars, requestVars, variant>>

LimiterNext ==
    \/ \E key \in RateKeys, limit \in Limits : LimiterCheck(key, limit)
    \/ Tick

LimiterSpec == LimiterInit /\ [][LimiterNext]_vars

----------------------------------------------------------------------------
(* The dispatcher: middleware(request) *)

\* The response is settled and nothing is logged.
Return(response) ==
    /\ resp' = Opt(response)
    /\ pc' = "done"
    /\ UNCHANGED logData

\* await logRequestToAPI(record); return response
LogAndReturn(record, response) ==
    /\ logData' = Opt(record)
    /\ resp' = Opt(response)
    /\ pc' = "log"

Goto(label) ==
    /\ pc' = label
    /\ UNCHANGED <<resp, logData>>

\* run: the requests of one shape received one after the other inside the
\* window the first of them opened, each of which went through the limiter
\* and was either rejected by it or answered 200 by the backend.
Continues(r) ==
    /\ run.shape = Opt(r)
    /\ run.n < MaxRun
    /\ now < run.start + windowMs

Receive(r) ==
    /\ pc = "idle"
    /\ req' = Opt(r)
    /\ pc' = "start"
    /\ run' = IF Continues(r) THEN run
              ELSE [shape |-> Opt(r), start |-> now, n |-> 0]
    /\ UNCHANGED <<now, chain, limiterVars, concVars, adminVars, stalled, variant, lookup, routeConfig, verification,
                   rl, proxy, resp, logData, logs, sink, calls>>

\* Skip internal routes.
SkipInternal ==
    /\ pc = "start"
    /\ IF IsInternal(req[1].path)
       THEN LogAndReturn(LogRecord("skip", Undefined, FALSE, "Skipped internal route",
                                   Undefined, Undefined),
                         PassOn)
       ELSE Goto(IF variant = "A" THEN "gate" ELSE "resolve")
    /\ UNCHANGED <<now, chain, limiterVars, concVars, adminVars, stalled, variant, req, lookup, routeConfig, verification,
                   rl, proxy, logs, sink, calls, run>>

\* middleware.ts: only /api/ paths are processed, and only for callers that
\* hold a session cookie.
SessionGate ==
    /\ pc = "gate"
    /\ variant = "A"
    /\ LET pathname == req[1].path IN
       IF ~IsApi(pathname) THEN Return(PassOn)
       ELSE IF ~req[1].session
       THEN IF \/ StartsWith(pathname, <<"dashboard">>)
               \/ StartsWithDir(pathname, <<"api", "get", "user">>)
               \/ StartsWith(pathname, <<"services">>)
               \/ StartsWith(pathname, <<"routes">>)
               \/ StartsWith(pathname, <<"route">>)
               \/ StartsWith(pathname, <<"account">>)
            THEN Return(SignInRedirect)
            ELSE Return(PassOn)
       ELSE Goto("resolve")
    /\ UNCHANGED <<now, chain, limiterVars, concVars, adminVars, stalled, variant, req, lookup, routeConfig, verification,
                   rl, proxy, logs, sink, calls, run>>

\* Get route configuration.
ResolveRoute(fault) ==
    /\ pc = "resolve"
    /\ ~stalled
    /\ LET cfg == getRouteConfig(req[1].path, req[1].method, fault)
           notConfigured == JsonResponse(404, "Route not configured", NoHeaders)
       IN
       /\ lookup' = Opt(fault)
       /\ routeConfig' = cfg
       /\ calls' = [calls EXCEPT !.lookup = @ + 1]
       /\ IF variant = "A"
          THEN IF ~Defined(cfg) \/ cfg[1].targetUrl = ""
               THEN Return(notConfigured)
               ELSE Goto("auth")
          ELSE IF ~Defined(cfg)
               THEN LogAndReturn(LogRecord("notFound", Opt(404), TRUE,
                                           "Route not configured", Undefined, Undefined),
                                 notConfigured)
               ELSE Goto("auth")
    /\ UNCHANGED <<now, chain, limiterVars, concVars, adminVars, stalled, variant, req, verification, rl, proxy, logs,
                   sink, run>>

\* Authentication middleware (session mode).
Authenticate ==
    /\ pc = "auth"
    /\ IF RequiresAuth(routeConfig[1]) /\ ~validateSession(req[1])
       THEN IF variant = "A"
            THEN Return(SignInRedirect)
            ELSE LogAndReturn(LogRecord("session", Opt(401), TRUE, "Unauthorized",
                                        routeConfig, Undefined),
                              SignInRedirect)
       ELSE Goto(IF variant = "A" THEN "limit"
                 ELSE IF ApiKeyMode(req[1].path, routeConfig[1]) THEN "apikey"
                 ELSE "pages")
    /\ UNCHANGED <<now, chain, limiterVars, concVars, adminVars, stalled, variant, req, lookup, routeConfig, verification,
                   rl, proxy, logs, sink, calls, run>>

\* API Key middleware: the bearer credential must be present.
ApiKeyHeader ==
    /\ pc = "apikey"
    /\ IF Falsy(ApiKeyOf(req[1].authorization))
       THEN LogAndReturn(LogRecord("apiKey", Opt(401), TRUE, "API key required",
                                   routeConfig, Undefined),
                         JsonResponse(401, "API key is required in Authorization header",
                                      NoHeaders))
       ELSE Goto("verify")
    /\ UNCHANGED <<now, chain, limiterVars, concVars, adminVars, stalled, variant, req, lookup, routeConfig, verification,
                   rl, proxy, logs, sink, calls, run>>

\* const verification = await AuthService.verifyApiKey(apiKey)
VerifyApiKey(reply) ==
    /\ pc = "verify"
    /\ ~stalled
    /\ LET v == verifyApiKey(reply)
           message == IF Falsy(v.error) THEN "Invalid API key" ELSE v.error[1]
       IN
       /\ verification' = Opt(v)
       /\ calls' = [calls EXCEPT !.verify = @ + 1]
       /\ IF ~v.valid \/ ~Defined(v.key)
          THEN LogAndReturn(LogRecord("verify", Opt(401), TRUE, message,
                                      routeConfig, Undefined),
                            JsonResponse(401, message, NoHeaders))
          ELSE Goto("scopes")
    /\ UNCHANGED <<now, chain, limiterVars, concVars, adminVars, stalled, variant, req, lookup, routeConfig, rl, proxy,
                   logs, sink, run>>

\* Check required scopes.  verification.key.scopes.includes of a key without
\* scopes is a TypeError, thrown outside every try block.
AuthorizeScopes ==
    /\ pc = "scopes"
    /\ LET requiredScopes == RequiredScopes(routeConfig[1])
           key == verification[1].key[1]
       IN
       IF requiredScopes # {} /\ ~Defined(key.scopes)
       THEN Return(Unhandled)
       ELSE IF requiredScopes # {} /\ ~hasRequiredScopes(requiredScopes, key.scopes[1])
       THEN LogAndReturn(LogRecord("scopes", Opt(403), TRUE, "Insufficient permissions",
                                   routeConfig, Undefined),
                         JsonResponse(403, "Insufficient permissions", NoHeaders))
       ELSE Goto("limit")
    /\ UNCHANGED <<now, chain, limiterVars, concVars, adminVars, stalled, variant, req, lookup, routeConfig, verification,
                   rl, proxy, logs, sink, calls, run>>

\* const rateLimit = ...   (undefined when neither side of ?? is defined)
EffectiveLimit ==
    IF variant = "A"
    THEN Opt(Coalesce(routeConfig[1].rateLimit, DefaultRateLimit))
    ELSE IF Defined(routeConfig[1].rateLimit) THEN routeConfig[1].rateLimit
    ELSE verification[1].key[1].rateLimit

NaN == "NaN"

\* check(key, undefined) on a fresh limiter: the new-window branch admits the
\* call and computes remaining as undefined - 1.
checkUndefined(trk, key, t) ==
    [tracker   |-> MapSet(trk, key, [count |-> 1, resetTime |-> t + windowMs]),
     allowed   |-> TRUE,
     remaining |-> NaN]

\* const rateLimitKey = ...
RateLimitKey ==
    IF variant = "A"
    THEN IpOf(req[1])
    ELSE verification[1].key[1].id \o ":" \o IpOf(req[1])

\* const rateLimiter = new RateLimiter()
NewRateLimiter == EmptyTracker

\* Rate limiting.  In part_007 the admitted request's key data is then
\* copied into newHeaders, outside every try block: scopes.join of a key
\* without scopes and rateLimit.toString() of an undefined limit are
\* TypeErrors.
RateLimit ==
    /\ pc = "limit"
    /\ LET rateLimit == EffectiveLimit
           r == IF Defined(rateLimit)
                THEN check(NewRateLimiter, RateLimitKey, rateLimit[1], now)
                ELSE checkUndefined(NewRateLimiter, RateLimitKey, now)
           keyId == IF variant = "A" THEN Undefined
                    ELSE Opt(verification[1].key[1].id)
       IN
       /\ rl' = Opt([rateLimit |-> rateLimit, key |-> RateLimitKey,
                     allowed |-> r.allowed, remaining |-> r.remaining])
       /\ calls' = [calls EXCEPT !.check = @ + 1]
       /\ IF ~r.allowed
          THEN LogAndReturn(LogRecord("rateLimit", Opt(429), TRUE, "Rate limit exceeded",
                                      routeConfig, keyId),
                            TooManyRequests(rateLimit[1]))
          ELSE IF /\ variant = "B"
                  /\ \/ ~Defined(verification[1].key[1].scopes)
                     \/ ~Defined(rateLimit)
          THEN Return(Unhandled)
          ELSE Goto("target")
    /\ UNCHANGED <<now, chain, limiterVars, concVars, adminVars, stalled, variant, req, lookup, routeConfig, verification,
                   proxy, logs, sink, run>>

\* The catch block's record without its isError flag.
ProxyFailedLog_NoErrorFlag(cfg, keyId) ==
    LogRecord("proxyFailed", Opt(503), FALSE, "Proxy request failed", cfg, keyId)

\* The record logged in the catch block of the proxy call.
ProxyFailedLog(cfg, keyId) ==
    LogRecord("proxyFailed", Opt(503), TRUE, "Proxy request failed", cfg, keyId)

\* The record logged after the backend has answered.
ProxiedLog(status, cfg, keyId) ==
    LogRecord("proxied", Opt(status), status >= 400, "Proxied request", cfg, keyId)

\* Prepare target URL.  In part_007 only /api/gate/ routes are proxied, and
\* the URL is built inside the try block of the proxy call.
PrepareTarget ==
    /\ pc = "target"
    /\ IF variant = "A"
       THEN IF ~WellFormedUrl(routeConfig[1].targetUrl)
            THEN LogAndReturn(LogRecord("target", Opt(500), TRUE, "Invalid target URL",
                                        routeConfig, Undefined),
                              JsonResponse(500, "Invalid service configuration",
                                           NoHeaders))
            ELSE Goto("proxy")
       ELSE IF ~IsGate(req[1].path)
            THEN Return(PassOn)
            ELSE IF ~WellFormedUrl(routeConfig[1].targetUrl)
            THEN LogAndReturn(ProxyFailedLog(routeConfig,
                                             Opt(verification[1].key[1].id)),
                              JsonResponse(503, "Service unavailable", NoHeaders))
            ELSE Goto("proxy")
    /\ UNCHANGED <<now, chain, limiterVars, concVars, adminVars, stalled, variant, req, lookup, routeConfig, verification,
                   rl, proxy, logs, sink, calls, run>>

\* The words of a header value written out with single spaces.
JoinWords(words) ==
    IF Len(words) = 1 THEN words[1] ELSE words[1] \o " " \o words[2]

\* request.headers: the inbound request's header list.
InboundHeaders(r) ==
    IF Defined(r.authorization)
    THEN ("authorization" :> JoinWords(r.authorization[1]))
    ELSE NoHeaders

\* Headers.set
SetHeader(h, name, value) == (name :> value) @@ h

\* key.scopes.join(","), the scopes listed in the order read, write.
JoinScopes(scopes) ==
    IF scopes = {"read", "write"} THEN "read,write"
    ELSE IF scopes = {"read"} THEN "read"
    ELSE IF scopes = {"write"} THEN "write"
    ELSE ""

\* Add service authentication headers: the header named authHeader set to
\* `Bearer ${apiKey}` when the route's serviceMetadata has both.
WithServiceAuth(h, cfg) ==
    LET sm == cfg.serviceMetadata IN
    IF Defined(sm) /\ ~Falsy(sm[1].authHeader) /\ ~Falsy(sm[1].apiKey)
    THEN SetHeader(h, sm[1].authHeader[1], "Bearer " \o sm[1].apiKey[1])
    ELSE h

\* CORS handling of src/middleware.ts.
WithCors(h, cfg) ==
    IF Defined(cfg.middlewares) /\ Defined(cfg.middlewares[1].cors)
    THEN SetHeader(h, "Access-Control-Allow-Origin", cfg.middlewares[1].cors[1])
    ELSE h

\* proxyHeaders.keys().length: keys() returns an iterator, which has no
\* length property, so the expression is undefined and compares as NaN.
KeysLength(h) == NaN

\* x > 0 as JavaScript evaluates it: false for NaN.
GreaterThanZero(x) == x # NaN /\ x > 0

\* The headers option of the backend fetch.
\* src/middleware.ts: proxyHeaders.keys().length > 0 ? proxyHeaders : {}
\* part_007: newHeaders, the inbound headers with the verified key's details
\* and the rate-limit figures set on them.
ProxyRequestHeaders ==
    IF variant = "A"
    THEN LET proxyHeaders ==
                 WithCors(WithServiceAuth(InboundHeaders(req[1]), routeConfig[1]),
                          routeConfig[1])
         IN  IF GreaterThanZero(KeysLength(proxyHeaders)) THEN proxyHeaders
             ELSE NoHeaders
    ELSE LET key == verification[1].key[1]
             h1 == SetHeader(InboundHeaders(req[1]), "X-Api-Key-Id", key.id)
             h2 == SetHeader(h1, "X-Api-Key-User", key.user)
             h3 == SetHeader(h2, "X-Api-Key-Scopes", JoinScopes(key.scopes[1]))
             h4 == SetHeader(h3, "X-RateLimit-Limit", ToString(rl[1].rateLimit[1]))
             newHeaders == SetHeader(h4, "X-RateLimit-Remaining",
                                     ToString(rl[1].remaining))
         IN  WithServiceAuth(newHeaders, routeConfig[1])

\* Response handling: the gateway's headers on the backend's response.
GatewayHeaders ==
    ("X-API-Gateway" :> "true") @@
    RateLimitHeaders(rl[1].rateLimit[1], rl[1].remaining) @@
    (IF /\ variant = "A"
        /\ Defined(routeConfig[1].cacheTtl)
        /\ routeConfig[1].cacheTtl[1] > 0
     THEN ("Cache-Control" :> ("public, max-age=" \o ToString(routeConfig[1].cacheTtl[1])))
     ELSE NoHeaders)

\* Proxy the request with timeout.
Proxy(reply) ==
    /\ pc = "proxy"
    /\ LET keyId == IF variant = "A" THEN Undefined
                    ELSE Opt(verification[1].key[1].id)
       IN
       /\ proxy' = Opt([headers |-> ProxyRequestHeaders] @@ reply)
       /\ calls' = [calls EXCEPT !.proxy = @ + 1]
       /\ IF reply.threw
          THEN LogAndReturn(ProxyFailedLog(routeConfig, keyId),
                            JsonResponse(503, "Service unavailable", NoHeaders))
          ELSE LogAndReturn(ProxiedLog(reply.status, routeConfig, keyId),
                            ProxiedResponse(reply.status, GatewayHeaders))
    /\ UNCHANGED <<now, chain, limiterVars, concVars, adminVars, stalled, variant, req, lookup, routeConfig, verification,
                   rl, logs, sink, run>>

\* part_007: handle non-API key routes (dashboard, etc.)
Pages ==
    /\ pc = "pages"
    /\ LET pathname == req[1].path IN
       IF /\ \/ StartsWith(pathname, <<"dashboard">>)
             \/ StartsWith(pathname, <<"account">>)
             \/ StartsWith(pathname, <<"services">>)
             \/ StartsWith(pathname, <<"routes">>)
          /\ ~req[1].session
       THEN Return(SignInRedirect)
       ELSE Return(PassOn)
    /\ UNCHANGED <<now, chain, limiterVars, concVars, adminVars, stalled, variant, req, lookup, routeConfig, verification,
                   rl, proxy, logs, sink, calls, run>>

\* The ids of the API keys the key table holds.
KeyIds == {Key1.id, Key2.id, Key3.id, Key4.id}

\* POST of the log sink on the body logRequestToAPI sends for the request r:
\* the record's fields and baseLogData's path and method.  The answer's
\* status; a RequestLog row is created with the answer 201 and with no other.
SinkPost(record, r) ==
    IF \/ ~Defined(record.routeId) \/ ~Defined(record.serviceId)
       \/ r.method = "" \/ r.path = << >>
       \/ ~Defined(record.statusCode) \/ record.statusCode[1] = 0
    THEN "400"
    ELSE IF ~\E route \in Routes : route.id = record.routeId[1] THEN "404"
    ELSE IF ~\E sv \in Services : sv.id = record.serviceId[1] THEN "404"
    ELSE IF Defined(record.apiKeyId) /\ record.apiKeyId[1] \notin KeyIds THEN "404"
    ELSE "201"

\* How the sink call ends: the handler's answer when the sink runs without a
\* fault, else the fault.
SinkAnswer(record, r, reply) ==
    IF reply = "201" THEN SinkPost(record, r) ELSE reply

\* logRequestToAPI with the catch block left out.
logRequestToAPI_NoCatch(reply) ==
    IF reply = "throws" THEN "threw" ELSE "returned"

\* logRequestToAPI: the fetch to the log sink sits in a try block whose catch
\* only prints the error.
logRequestToAPI(reply) ==
    IF reply = "throws" THEN "returned" ELSE "returned"

\* Where an exception thrown by a logRequestToAPI call would go: to the
\* enclosing catch block if the call has one, out of middleware() if not.
\* middleware.ts wraps everything after the skip in one try block; part_007
\* has only the try block of the proxy call, whose catch logs and answers 503.
OnLogThrow(site) ==
    IF variant = "A" /\ site # "skip"
    THEN JsonResponse(500, "Internal server error", NoHeaders)
    ELSE IF variant = "B" /\ site = "proxied"
    THEN JsonResponse(503, "Service unavailable", NoHeaders)
    ELSE Unhandled

\* The pending logRequestToAPI call is made, then the response is returned.
LogRequest(reply) ==
    /\ pc = "log"
    /\ ~stalled
    /\ logs' = Append(logs, logData[1])
    /\ sink' = Append(sink, SinkAnswer(logData[1], req[1], reply))
    /\ IF logRequestToAPI(reply) = "threw"
       THEN /\ resp' = Opt(OnLogThrow(logData[1].site))
            /\ IF variant = "B" /\ logData[1].site = "proxied"
               THEN /\ logData' = Opt(ProxyFailedLog(routeConfig,
                                                     Opt(verification[1].key[1].id)))
                    /\ pc' = "log"
               ELSE /\ logData' = Undefined
                    /\ pc' = "done"
       ELSE /\ resp' = resp
            /\ logData' = Undefined
            /\ pc' = "done"
    /\ UNCHANGED <<now, chain, limiterVars, concVars, adminVars, stalled, variant, req, lookup, routeConfig, verification,
                   rl, proxy, calls, run>>

\* The collaborator the request awaits never answers.  The fetch of the route
\* configuration, the fetch of the key verification and the fetch of the log
\* sink are awaited without a signal or a timeout, so the await never
\* resumes.  (A backend that never answers is Proxy with "TimeoutError":
\* that fetch carries AbortSignal.timeout(5000).)
NeverAnswers ==
    /\ pc \in {"resolve", "verify", "log"}
    /\ ~stalled
    /\ stalled' = TRUE
    /\ UNCHANGED <<now, chain, limiterVars, concVars, adminVars, variant, pc, req, lookup, routeConfig,
                   verification, rl, proxy, resp, logData, logs, sink, calls, run>>

\* The request was admitted and the backend answered 200, or it was rejected
\* by the limiter.
Healthy ==
    /\ Defined(rl)
    /\ rl[1].allowed => (Defined(proxy) /\ ~proxy[1].threw /\ proxy[1].status = 200)

\* The response goes out; the handler's locals are gone.
Respond ==
    /\ pc = "done"
    /\ pc' = "idle"
    /\ req' = Undefined
    /\ lookup' = Undefined
    /\ routeConfig' = Undefined
    /\ verification' = Undefined
    /\ rl' = Undefined
    /\ proxy' = Undefined
    /\ resp' = Undefined
    /\ logData' = Undefined
    /\ logs' = << >>
    /\ sink' = << >>
    /\ calls' = NoCalls
    /\ run' = IF Healthy THEN [run EXCEPT !.n = @ + 1] ELSE NoRun
    /\ UNCHANGED <<now, chain, limiterVars, concVars, adminVars, stalled, variant>>

Next ==
    \/ \E r \in Requests : Receive(r)
    \/ SkipInternal
    \/ SessionGate
    \/ \E fault \in LookupFaults : ResolveRoute(fault)
    \/ Authenticate
    \/ ApiKeyHeader
    \/ \E reply \in VerifyReplies : VerifyApiKey(reply)
    \/ AuthorizeScopes
    \/ RateLimit
    \/ PrepareTarget
    \/ \E reply \in ProxyReplies : Proxy(reply)
    \/ Pages
    \/ \E reply \in SinkReplies : LogRequest(reply)
    \/ NeverAnswers
    \/ Respond
    \/ Tick

Spec == Init /\ [][Next]_vars

\* The steps middleware() takes on the request in hand.
HandlerStep ==
    \/ SkipInternal
    \/ SessionGate
    \/ \E fault \in LookupFaults : ResolveRoute(fault)
    \/ Authenticate
    \/ ApiKeyHeader
    \/ \E reply \in VerifyReplies : VerifyApiKey(reply)
    \/ AuthorizeScopes
    \/ RateLimit
    \/ PrepareTarget
    \/ \E reply \in ProxyReplies : Proxy(reply)
    \/ Pages
    \/ \E reply \in SinkReplies : LogRequest(reply)
    \/ Respond

\* The runtime resumes a handler whose awaited call has settled.
LiveSpec == Spec /\ WF_vars(HandlerStep)

----------------------------------------------------------------------------
(* The log request on its way to the sink.  logRequestToAPI posts to
   ${NEXT_PUBLIC_API_BASE_URL}/api/internal/route/update/logs, a route of the
   application the middleware is deployed in, so the request passes the
   middleware's matcher like any other. *)

LogEndpoint == <<"api", "internal", "route", "update", "logs">>

\* config.matcher: "/<segment>/:path*" entries, and in src/middleware.ts the
\* entry "/api/((?!internal|auth|routes/update/logs).*)" besides.
MatcherPrefixes ==
    IF variant = "A"
    THEN {"api", "dashboard", "route", "services", "service"}
    ELSE {"api", "dashboard", "account", "services", "routes"}

ExcludingEntryMatches(pathname) ==
    /\ variant = "A"
    /\ Len(pathname) >= 1 /\ pathname[1] = "api"
    /\ ~StartsWith(pathname, <<"api", "internal">>)
    /\ ~StartsWith(pathname, <<"api", "auth">>)
    /\ ~StartsWith(pathname, <<"api", "routes", "update", "logs">>)

\* The middleware runs on a path that any entry of the matcher matches.
Matches(pathname) ==
    \/ Len(pathname) >= 1 /\ pathname[1] \in MatcherPrefixes
    \/ ExcludingEntryMatches(pathname)

\* The pending logRequestToAPI call sends its request.  The matcher matches
\* the log endpoint, so a new invocation of middleware() receives the request
\* before the sink does; the path is an internal one, so that invocation takes
\* the skip branch, whose first statement is `await logRequestToAPI(...)`: it
\* has a log request of its own pending, and neither it nor the invocation
\* that sent the request goes on before that one is answered.
LogFetch ==
    /\ pc = "log"
    /\ chain < MaxChain
    /\ chain' = chain + 1
    /\ logs' = Append(logs, logData[1])
    /\ IF Matches(LogEndpoint) /\ IsInternal(LogEndpoint)
       THEN /\ logData' = Opt(LogRecord("skip", Undefined, FALSE,
                                        "Skipped internal route", Undefined, Undefined))
            /\ pc' = "log"
       ELSE /\ logData' = Undefined
            /\ pc' = "done"
    /\ UNCHANGED <<now, limiterVars, concVars, adminVars, stalled, variant, req, lookup,
                   routeConfig, verification, rl, proxy, resp, sink, calls, run>>

ChainNext ==
    \/ \E r \in Requests : Receive(r)
    \/ SkipInternal
    \/ SessionGate
    \/ \E fault \in LookupFaults : ResolveRoute(fault)
    \/ Authenticate
    \/ ApiKeyHeader
    \/ \E reply \in VerifyReplies : VerifyApiKey(reply)
    \/ AuthorizeScopes
    \/ RateLimit
    \/ PrepareTarget
    \/ \E reply \in ProxyReplies : Proxy(reply)
    \/ Pages
    \/ LogFetch
    \/ Respond
    \/ Tick

ChainSpec == Init /\ [][ChainNext]_vars

----------------------------------------------------------------------------
(* Invocations of middleware() that overlap.  The runtime runs each of them
   up to its next await; the awaits are where they interleave.  All of them
   arrive at one instant, inside one window. *)

\* const rateLimitKey = ...  of these requests
SharedKey == IF variant = "A" THEN "10.0.0.1" ELSE "k1:10.0.0.1"

\* middleware(request) is called and awaits the route configuration.
Arrive(h) ==
    /\ inflight[h].stage = "none"
    /\ inflight' = [inflight EXCEPT ![h].stage = "resolve"]
    /\ UNCHANGED <<now, chain, limiterVars, gatewayVars, quota, adminVars>>

\* The configuration arrives; the invocation runs on through
\* `new RateLimiter()` and check() to its next await: the backend fetch if
\* it was admitted, the log call of the 429 if not.
Admit(h) ==
    /\ inflight[h].stage = "resolve"
    /\ LET r == check(NewRateLimiter, SharedKey, quota, now) IN
       inflight' = [inflight EXCEPT
                       ![h] = [stage |-> IF r.allowed THEN "proxy" ELSE "log",
                               allowed |-> r.allowed,
                               remaining |-> r.remaining]]
    /\ UNCHANGED <<now, chain, limiterVars, gatewayVars, quota, adminVars>>

\* The backend answers (or the fetch fails) and the invocation awaits its
\* log call.
Forwarded(h) ==
    /\ inflight[h].stage = "proxy"
    /\ inflight' = [inflight EXCEPT ![h].stage = "log"]
    /\ UNCHANGED <<now, chain, limiterVars, gatewayVars, quota, adminVars>>

\* The log call returns and the invocation returns its response.
Finished(h) ==
    /\ inflight[h].stage = "log"
    /\ inflight' = [inflight EXCEPT ![h].stage = "done"]
    /\ UNCHANGED <<now, chain, limiterVars, gatewayVars, quota, adminVars>>

ConcurrentNext ==
    \/ \E h \in Handlers : Arrive(h)
    \/ \E h \in Handlers : Admit(h)
    \/ \E h \in Handlers : Forwarded(h)
    \/ \E h \in Handlers : Finished(h)

ConcurrentSpec == ConcurrentInit /\ [][ConcurrentNext]_vars

----------------------------------------------------------------------------
(* The route administration API: POST /api/internal/route/create and the PUT
   handler that updates a route.  Each handler reads the table, awaits, and
   then writes; requests handled at the same time interleave at the awaits. *)

SameKey(r, serviceId, path, method) ==
    r.serviceId = serviceId /\ r.path = path /\ r.method = method

\* The routes the create requests ask for.
CreateBodies ==
    { [serviceId |-> "s1", path |-> <<"users">>, method |-> "GET"],
      [serviceId |-> "s2", path |-> <<"users">>, method |-> "GET"] }

\* The create requests that have passed their findFirst and not yet written.
PendingCreates ==
    {h \in AdminHandlers : admin[h].stage = "write" /\ admin[h].op = "create"}

\* updateData of a PUT: the fields of the body other than routeId.
Patches ==
    { [serviceId |-> Opt("s2"), path |-> Undefined, method |-> Undefined],
      [serviceId |-> Undefined, path |-> Opt(<<"orders">>), method |-> Undefined],
      [serviceId |-> Undefined, path |-> Undefined, method |-> Opt("POST")] }

AdminAnswer(h, status) ==
    admin' = [admin EXCEPT ![h].stage = "done", ![h].status = status]

\* What prisma.route.create / update does with a row that repeats the
\* (serviceId, path, method) of another row: it throws if the table has a
\* unique index on the three columns, and writes the row if it has none.
Rejects(others, serviceId, path, method) ==
    uniqueIndex /\ \E r \in others : SameKey(r, serviceId, path, method)

\* POST up to `await prisma.route.create`: the body is validated and
\* prisma.route.findFirst looks for a route with the same key.
CreateRoute(h, serviceId, path, method) ==
    /\ admin[h].stage = "none"
    /\ Cardinality(store) + Cardinality(PendingCreates) < MaxStored
    /\ IF \E r \in store : SameKey(r, serviceId, path, method)
       THEN admin' = [admin EXCEPT ![h] = [NoOp EXCEPT !.stage = "done", !.op = "create",
                                                        !.status = 409]]
       ELSE admin' = [admin EXCEPT ![h] =
                        [stage |-> "write", op |-> "create", id |-> 0,
                         serviceId |-> Opt(serviceId), path |-> Opt(path),
                         method |-> Opt(method), status |-> 0]]
    /\ UNCHANGED <<now, chain, limiterVars, gatewayVars, concVars, store, uniqueIndex>>

\* prisma.route.create, and the 201; a throw lands in the catch block (500).
CreateWrite(h) ==
    /\ admin[h].stage = "write"
    /\ admin[h].op = "create"
    /\ LET serviceId == admin[h].serviceId[1]
           path == admin[h].path[1]
           method == admin[h].method[1]
       IN
       IF Rejects(store, serviceId, path, method)
       THEN AdminAnswer(h, 500) /\ UNCHANGED store
       ELSE /\ store' = store \cup {[id |-> Cardinality(store) + 1, serviceId |-> serviceId,
                                      path |-> path, method |-> method]}
            /\ AdminAnswer(h, 201)
    /\ UNCHANGED <<now, chain, limiterVars, gatewayVars, concVars, uniqueIndex>>

\* PUT up to `await prisma.route.update`: findUnique of the route, then,
\* only if the body has a path or a method, findFirst of a conflicting route
\* in the service the route belonged to when it was read.
UpdateRoute(h, routeId, updateData) ==
    /\ admin[h].stage = "none"
    /\ IF ~\E r \in store : r.id = routeId
       THEN admin' = [admin EXCEPT ![h] = [NoOp EXCEPT !.stage = "done", !.op = "update",
                                                        !.status = 404]]
       ELSE LET existingRoute == CHOOSE r \in store : r.id = routeId
                path == Coalesce(updateData.path, existingRoute.path)
                method == Coalesce(updateData.method, existingRoute.method)
                conflictingRoute ==
                    \E r \in store : /\ SameKey(r, existingRoute.serviceId, path, method)
                                      /\ r.id # routeId
            IN  IF (Defined(updateData.path) \/ Defined(updateData.method))
                   /\ conflictingRoute
                THEN admin' = [admin EXCEPT ![h] =
                                  [NoOp EXCEPT !.stage = "done", !.op = "update",
                                               !.status = 409]]
                ELSE admin' = [admin EXCEPT ![h] =
                                  [stage |-> "write", op |-> "update", id |-> routeId,
                                   serviceId |-> updateData.serviceId,
                                   path |-> updateData.path,
                                   method |-> updateData.method, status |-> 0]]
    /\ UNCHANGED <<now, chain, limiterVars, gatewayVars, concVars, store, uniqueIndex>>

\* prisma.route.update({ where: { id }, data: { ...updateData } }), and the
\* 200; a throw lands in the catch block (500).
UpdateWrite(h) ==
    /\ admin[h].stage = "write"
    /\ admin[h].op = "update"
    /\ LET row == CHOOSE r \in store : r.id = admin[h].id
           updated == [id |-> row.id,
                       serviceId |-> Coalesce(admin[h].serviceId, row.serviceId),
                       path |-> Coalesce(admin[h].path, row.path),
                       method |-> Coalesce(admin[h].method, row.method)]
       IN
       IF Rejects(store \ {row}, updated.serviceId, updated.path, updated.method)
       THEN AdminAnswer(h, 500) /\ UNCHANGED store
       ELSE /\ store' = (store \ {row}) \cup {updated}
            /\ AdminAnswer(h, 200)
    /\ UNCHANGED <<now, chain, limiterVars, gatewayVars, concVars, uniqueIndex>>

\* The handler returns its response.
AdminReturn(h) ==
    /\ admin[h].stage = "done"
    /\ admin' = [admin EXCEPT ![h] = NoOp]
    /\ UNCHANGED <<now, chain, limiterVars, gatewayVars, concVars, store, uniqueIndex>>

AdminInit ==
    /\ now = 0
    /\ chain = 0
    /\ LimiterIdle
    /\ variant = "A"
    /\ Idle
    /\ run = NoRun
    /\ NoneInflight
    /\ store = {}
    /\ admin = [h \in AdminHandlers |-> NoOp]
    /\ uniqueIndex \in BOOLEAN

AdminNext ==
    \/ \E h \in AdminHandlers, body \in CreateBodies :
          CreateRoute(h, body.serviceId, body.path, body.method)
    \/ \E h \in AdminHandlers : CreateWrite(h)
    \/ \E h \in AdminHandlers, routeId \in 1..MaxStored, updateData \in Patches :
          UpdateRoute(h, routeId, updateData)
    \/ \E h \in AdminHandlers : UpdateWrite(h)
    \/ \E h \in AdminHandlers : AdminReturn(h)

AdminSpec == AdminInit /\ [][AdminNext]_vars

----------------------------------------------------------------------------
(* Claims *)

Status == resp[1].status

Header(name) ==
    IF name \in DOMAIN resp[1].headers THEN Opt(resp[1].headers[name]) ELSE Undefined

(* C1: through the dispatcher, for a matched route with rateLimit = 2, three
   consecutive requests of one rate-limit identity inside one 60 s window are
   answered 200, 200, 429 with X-RateLimit-Remaining 1, 0, 0 (the backend
   answering 200 to every request that reaches it). *)
C1_ThreeInOneWindow ==
    (pc = "done" /\ Defined(rl) /\ rl[1].rateLimit = Opt(2) /\ Healthy
       /\ resp[1].kind \in {"proxied", "json"}) =>
        LET i == run.n + 1 IN
        /\ i = 1 => (Status = 200 /\ Header("X-RateLimit-Remaining") = Opt("1"))
        /\ i = 2 => (Status = 200 /\ Header("X-RateLimit-Remaining") = Opt("0"))
        /\ i = 3 => (Status = 429 /\ Header("X-RateLimit-Remaining") = Opt("0"))

(* C2: on one RateLimiter instance, for every key and every limit >= 1, the
   first `limit` calls of a window are admitted with remaining limit-1,
   limit-2, ..., 0, the (limit+1)-th call of the window is rejected with
   remaining 0, and the first call after resetTime has elapsed is admitted
   with remaining limit-1. *)
C2_WindowSequence ==
    (result.called /\ result.limit >= 1 /\ window[result.key].uniform) =>
        LET n == window[result.key].n
            L == result.limit
        IN  /\ n <= L => (result.allowed /\ result.remaining = L - n)
            /\ n = L + 1 => (~result.allowed /\ result.remaining = 0)
            /\ (n = 1 /\ window[result.key].reopened) =>
                   (result.allowed /\ result.remaining = L - 1)

\* A window reopened after resetTime has been used up and its (limit+1)-th
\* call rejected.
C2_Witness ==
    /\ result.called /\ result.limit >= 2
    /\ window[result.key].uniform /\ window[result.key].reopened
    /\ window[result.key].n = result.limit + 1
    /\ ~result.allowed

(* C3: in every reachable state of a RateLimiter, for every limit >= 0 and
   also when the limit passed for a key changes between calls, the stored
   count of a key whose window is open (now < resetTime) does not exceed the
   limit passed to the latest check of that key, and no admitted call leaves
   count > limit. *)
C3_CountWithinLimit ==
    /\ \A k \in DOMAIN tracker :
          now < tracker[k].resetTime => tracker[k].count <= window[k].limit
    /\ (result.called /\ result.allowed) =>
          tracker[result.key].count <= result.limit

\* The Authorization header is absent, or no token follows its first word.
NoToken(authHeader) ==
    \/ ~Defined(authHeader)
    \/ Len(authHeader[1]) < 2
    \/ authHeader[1][2] = ""

KeyRequired == JsonResponse(401, "API key is required in Authorization header", NoHeaders)

NoDownstreamCalls == calls.verify = 0 /\ calls.check = 0 /\ calls.proxy = 0

\* The request in hand has matched a route handled in API-key mode
\* (part_007) and carries no token.
KeylessOnKeyRoute ==
    /\ pc = "done"
    /\ variant = "B"
    /\ Defined(routeConfig)
    /\ ApiKeyMode(req[1].path, routeConfig[1])
    /\ NoToken(req[1].authorization)

(* C4 as stated: a request to a route in API-key mode that carries no
   Authorization header, or one from which no token can be read, is answered
   401 "API key is required in Authorization header" and causes no
   key-verification call, no rate-limit check and no proxy call. *)
C4_Original ==
    KeylessOnKeyRoute => (resp[1] = KeyRequired /\ NoDownstreamCalls)

(* C4 as amended: such a request is answered 401 "API key is required in
   Authorization header" when it passes the route's session check (the route
   does not set middlewares.auth, or the request carries the session_token
   cookie), and with the sign-in redirect when it fails that check; either
   way no key-verification call, no rate-limit check and no proxy call is
   made. *)
C4_KeylessRejected ==
    KeylessOnKeyRoute =>
        /\ NoDownstreamCalls
        /\ IF RequiresAuth(routeConfig[1]) /\ ~req[1].token
           THEN resp[1] = SignInRedirect
           ELSE resp[1] = KeyRequired

\* A header "Bearer" with no token after it, on a gate route, answered 401.
C4_Witness ==
    /\ KeylessOnKeyRoute
    /\ req[1].authorization = Opt(<<"Bearer">>)
    /\ IsGate(req[1].path)
    /\ resp[1] = KeyRequired
    /\ Len(logs) = 1

(* C5: for every API-key-mode route with a non-empty requiredScopes set and
   every verified key (a key object that carries its scopes array), the
   request passes authorization (goes on to the rate limiter) if and only if
   every required scope is in the key's scope set; otherwise it is answered
   403 "Insufficient permissions" with no rate-limit check and no proxy
   call. *)
C5_ScopesDecide ==
    (/\ pc = "done"
     /\ variant = "B"
     /\ Defined(verification) /\ verification[1].valid /\ Defined(verification[1].key)
     /\ Defined(verification[1].key[1].scopes)
     /\ RequiredScopes(routeConfig[1]) # {}) =>
        LET covered == RequiredScopes(routeConfig[1]) \subseteq
                           verification[1].key[1].scopes[1]
        IN  /\ covered <=> calls.check = 1
            /\ covered => Status # 403
            /\ ~covered =>
                 /\ resp[1] = JsonResponse(403, "Insufficient permissions", NoHeaders)
                 /\ calls.check = 0
                 /\ calls.proxy = 0

\* requiredScopes {read} and a key holding only {write}: 403.
C5_Witness ==
    /\ pc = "done"
    /\ variant = "B"
    /\ Defined(verification) /\ verification[1].key = Opt(Key2)
    /\ RequiredScopes(routeConfig[1]) = {"read"}
    /\ Status = 403

(* C6: when the route-configuration lookup itself fails (the config endpoint
   throws or answers with a non-OK status other than not-found), the
   dispatcher answers 5xx and not 404 "Route not configured". *)
C6_LookupFailureIs5xx ==
    (pc = "done" /\ Defined(lookup) /\ lookup[1] # "none") =>
        (Status >= 500 /\ Status <= 599)

(* C7: for a matched, admitted request whose backend call times out or fails
   with a network error, the gateway answers 503 {"error":"Service
   unavailable"} and emits exactly one log record, with isError = true and
   statusCode 503, and no "Proxied request" record. *)
C7_BackendFailure ==
    (pc = "done" /\ Defined(proxy) /\ proxy[1].threw) =>
        /\ resp[1] = JsonResponse(503, "Service unavailable", NoHeaders)
        /\ Len(logs) = 1
        /\ logs[1].isError
        /\ logs[1].statusCode = Opt(503)
        /\ logs[1].message # "Proxied request"

\* The backend call timed out and the 503 is ready to be returned.
C7_Witness ==
    /\ pc = "done"
    /\ Defined(proxy) /\ proxy[1].threw /\ proxy[1].reason = "TimeoutError"
    /\ Status = 503
    /\ Len(logs) = 1

(* C8: for every request that gets past Skip-Internal, whatever stage ends
   it, exactly one log record is emitted before the response is returned. *)
C8_EveryOutcomeLogged ==
    (pc = "done" /\ ~IsInternal(req[1].path)) => Len(logs) = 1

(* C9: the response of a request is the same whether the log-sink call made
   by logRequestToAPI succeeds, is answered with an error status or throws:
   the logging step hands on the response that was settled before it. *)
C9_LogNeverChangesResponse ==
    [][(pc = "log" /\ ~stalled') => (pc' = "done" /\ resp' = resp)]_vars

\* A proxied 200 returned although the log-sink call threw.
C9_Witness ==
    /\ pc = "done"
    /\ sink = <<"throws">>
    /\ resp[1].kind = "proxied"
    /\ Status = 200

(* C10: every request to a non-internal /api/ path that leaves the gateway
   without an error response (proxied to the backend, or passed on with
   NextResponse.next()) has gone through route resolution and exactly one
   rate-limit check. *)
C10_NoneSkipsTheLimiter ==
    (/\ pc = "done"
     /\ IsApi(req[1].path) /\ ~IsInternal(req[1].path)
     /\ \/ resp[1].kind = "next"
        \/ resp[1].kind = "proxied" /\ Status < 400) =>
        (calls.lookup = 1 /\ calls.check = 1)

Admitted == {h \in Handlers : inflight[h].stage \in {"proxy", "log", "done"}
                              /\ inflight[h].allowed}

(* C11: of the concurrent requests that share one rate-limit identity key
   and one limit (quota) and all arrive inside one window, at most quota are
   admitted past the rate-limit stage, whatever the interleaving. *)
C11_AtMostLimitAdmitted ==
    Cardinality(Admitted) <= quota

(* C12: a request in hand never waits forever on a collaborator: while it
   awaits the route-config lookup, the API-key verification or the backend
   call, a step of its handler is possible (the call is answered, or its
   timeout ends it), also when the collaborator never answers. *)
C12_CollaboratorsBounded ==
    pc \in {"resolve", "verify", "proxy"} => ENABLED HandlerStep

(* C13: the response does not wait on the log sink: once the response of a
   request is settled and its log record is being emitted, the handler can
   go on to return it, also when the log-sink call never answers. *)
C13_ResponseNotHeldByLog ==
    (pc = "log" /\ Defined(resp)) => ENABLED HandlerStep

(* C14: no fault thrown at a stage of the pipeline leaves middleware() as an
   unhandled exception: every request ends with a response the middleware
   built, also when the verified key comes without its scopes or its
   rateLimit. *)
C14_NoFaultEscapes ==
    pc = "done" => resp[1].kind # "unhandled"

(* C15: when a (path, method) has been resolved to a route and is resolved
   again at the same instant (inside any route-cache TTL), the second
   resolution makes no lookup against the route-config endpoint: the two
   resolutions together cause exactly one lookup. *)
C15_SecondResolutionFromCache ==
    (pc = "done" /\ run.n >= 1 /\ run.shape = req /\ now = run.start) =>
        calls.lookup = 0

\* The request in hand is for a non-internal /api/ path that has no active
\* route.
Unconfigured ==
    /\ IsApi(req[1].path)
    /\ ~IsInternal(req[1].path)
    /\ ~Defined(FindRoute(CleanPath(req[1].path), req[1].method))

(* C16: a request for a (path, method) that is not configured, or whose
   route is inactive, is answered 404 "Route not configured" after exactly
   one lookup, with no rate-limit check and no proxy call; and no inactive
   route is ever resolved to a route configuration. *)
C16_UnconfiguredIs404 ==
    /\ Defined(routeConfig) => routeConfig[1].isActive
    /\ (pc = "done" /\ Unconfigured) =>
          /\ resp[1] = JsonResponse(404, "Route not configured", NoHeaders)
          /\ calls.lookup = 1
          /\ calls.check = 0
          /\ calls.proxy = 0

\* The first defined value of: the route's rateLimit, the API key's
\* rateLimit (API-key mode), the service's rateLimit, the default.
FirstDefinedLimit ==
    LET route == routeConfig[1].rateLimit
        key == IF variant = "B" /\ Defined(verification) /\ Defined(verification[1].key)
               THEN verification[1].key[1].rateLimit
               ELSE Undefined
        service == ServiceLimit(routeConfig[1].serviceId)
    IN  IF Defined(route) THEN route[1]
        ELSE IF Defined(key) THEN key[1]
        ELSE IF Defined(service) THEN service[1]
        ELSE DefaultRateLimit

(* C17: the limit passed to the rate limiter is the first defined value in
   the order route rateLimit, API-key rateLimit (API-key mode), service
   rateLimit, default, and is always a defined integer. *)
C17_LimitPrecedence ==
    Defined(rl) => rl[1].rateLimit = Opt(FirstDefinedLimit)

\* The users a session can belong to.
Users == {"u1", "u2"}

\* The request in hand passed the route's session check.
SessionAuthenticated ==
    RequiresAuth(routeConfig[1]) /\ validateSession(req[1])

(* C18: the rate-limit identity key of a request is <apiKeyId>:<ip> when it
   is API-key-authenticated, user:<id> when it is session-authenticated,
   and ip:<address> otherwise. *)
C18_IdentityKey ==
    Defined(rl) =>
        IF variant = "B"
        THEN rl[1].key = verification[1].key[1].id \o ":" \o IpOf(req[1])
        ELSE IF SessionAuthenticated
        THEN \E u \in Users : rl[1].key = "user:" \o u
        ELSE rl[1].key = "ip:" \o IpOf(req[1])

\* The request in hand was admitted by the limiter and went on to have its
\* target URL built.
ReachedTarget ==
    /\ Defined(rl) /\ rl[1].allowed
    /\ resp[1].kind # "unhandled"
    /\ variant = "B" => IsGate(req[1].path)

(* C19: a matched, admitted request whose target URL cannot be formed is
   answered 500 "Invalid service configuration" and causes no backend call
   (and so is told apart from the 503 "Service unavailable" of a failed
   backend call). *)
C19_BadTargetIs500 ==
    (pc = "done" /\ ReachedTarget /\ ~WellFormedUrl(routeConfig[1].targetUrl)) =>
        /\ resp[1] = JsonResponse(500, "Invalid service configuration", NoHeaders)
        /\ calls.proxy = 0

\* The path is under /api/internal or /api/auth.
InternalOrAuth(pathname) ==
    \/ StartsWith(pathname, <<"api", "internal">>)
    \/ StartsWith(pathname, <<"api", "auth">>)

(* C20: a request whose path is under /api/internal or /api/auth is passed
   on and causes no route lookup, no authentication check, no rate-limit
   check, no proxy call and no log record. *)
C20_InternalTouchesNothing ==
    (pc = "done" /\ InternalOrAuth(req[1].path)) =>
        /\ resp[1] = PassOn
        /\ calls = NoCalls
        /\ ~Defined(routeConfig) /\ ~Defined(verification) /\ ~Defined(rl)
        /\ logs = << >>


\* The request in hand has matched a route that sets both auth and apiKey,
\* in the dispatcher that has both modes (part_007).
OnDoublyGuardedRoute ==
    /\ pc = "done"
    /\ variant = "B"
    /\ Defined(routeConfig)
    /\ RequiresAuth(routeConfig[1])
    /\ RequiresApiKey(routeConfig[1])

\* The key check of the request in hand was made and passed.
KeyCheckPassed ==
    /\ calls.verify = 1
    /\ verification[1].valid
    /\ Defined(verification[1].key)

(* C21: on a route that sets both auth and apiKey, a request reaches the
   rate limiter only if the session check passed and the key check was made
   and passed; a request failing the session check gets the sign-in
   redirect, whatever key it carries, and a request that passes it and fails
   the key check gets 401. *)
C21_BothChecksGuard ==
    OnDoublyGuardedRoute =>
        /\ calls.check >= 1 => (req[1].token /\ KeyCheckPassed)
        /\ ~req[1].token => (resp[1] = SignInRedirect /\ calls.verify = 0)
        /\ (req[1].token /\ ~KeyCheckPassed) => Status = 401

\* A request with the session cookie and a valid key that covers the
\* route's scopes went through both checks and reached the limiter.
C21_Witness ==
    /\ OnDoublyGuardedRoute
    /\ req[1].token
    /\ KeyCheckPassed
    /\ verification[1].key = Opt(Key1)
    /\ calls.check = 1


\* Answers the gateway makes itself: 404, 429, 5xx, or the backend's response.
GatewayAnswer ==
    \/ resp[1].kind \in {"proxied", "unhandled"}
    \/ resp[1].kind = "json" /\ (Status \in {404, 429} \/ Status >= 500)

(* C22: a request whose path is outside /api/ causes no route-config lookup
   and is never answered 404, 429, 5xx or with a proxied response: it is
   passed on, or redirected to sign-in. *)
C22_PagesPassThrough ==
    (pc = "done" /\ ~IsApi(req[1].path)) =>
        /\ calls.lookup = 0
        /\ ~GatewayAnswer
        /\ resp[1] \in {PassOn, SignInRedirect}


\* The gateway has built the response of the request in hand itself, after
\* the rate-limit check of a matched route.
GatewayMediated ==
    /\ pc = "done"
    /\ Defined(routeConfig)
    /\ Defined(rl) /\ Defined(rl[1].rateLimit)
    /\ resp[1].kind \in {"json", "proxied"}

(* C23: every response the gateway builds for a matched, rate-checked
   request carries X-API-Gateway: true, X-RateLimit-Limit with the effective
   limit and X-RateLimit-Remaining with the remaining of this request's
   check; a proxied response has the backend's status, and carries
   Cache-Control: public, max-age=<cacheTtl> when the route has a cacheTtl. *)
C23_GatewayHeaders ==
    GatewayMediated =>
        /\ Header("X-API-Gateway") = Opt("true")
        /\ Header("X-RateLimit-Limit") = Opt(ToString(rl[1].rateLimit[1]))
        /\ Header("X-RateLimit-Remaining") = Opt(ToString(rl[1].remaining))
        /\ resp[1].kind = "proxied" =>
              /\ Status = proxy[1].status
              /\ Defined(routeConfig[1].cacheTtl) =>
                    Header("Cache-Control") =
                        Opt("public, max-age=" \o ToString(routeConfig[1].cacheTtl[1]))


(* C24: whatever route-create and route-update requests are handled, and
   however they interleave, no two stored routes have the same (serviceId,
   path, method), and a request that would store a duplicate is refused
   with 409 (never by the write failing with 500). *)
C24_RouteKeyUnique ==
    /\ \A r1, r2 \in store :
          SameKey(r1, r2.serviceId, r2.path, r2.method) => r1.id = r2.id
    /\ \A h \in AdminHandlers :
          admin[h].stage = "done" => admin[h].status \in {200, 201, 404, 409}


\* The authentication and authorization the matched route asks for have
\* succeeded for the request in hand.
AuthSucceeded ==
    /\ RequiresAuth(routeConfig[1]) => req[1].token
    /\ (RequiresApiKey(routeConfig[1]) \/ (variant = "B" /\ IsGate(req[1].path))) =>
          /\ KeyCheckPassed
          /\ \/ RequiredScopes(routeConfig[1]) = {}
             \/ /\ Defined(verification[1].key[1].scopes)
                /\ RequiredScopes(routeConfig[1]) \subseteq verification[1].key[1].scopes[1]

\* No stage is entered before the stages ahead of it have succeeded.
InOrder ==
    /\ calls.lookup <= 1 /\ calls.verify <= 1 /\ calls.check <= 1 /\ calls.proxy <= 1
    /\ calls.verify >= 1 => (calls.lookup = 1 /\ Defined(routeConfig))
    /\ calls.check >= 1 => (calls.lookup = 1 /\ Defined(routeConfig))
    /\ calls.proxy >= 1 => (calls.check = 1 /\ rl[1].allowed)

\* A request ended at one stage has made no call of a later stage.
StopsAtFirstOutcome ==
    pc = "done" =>
        /\ (resp[1].kind = "json" /\ Status = 404) =>
              (calls.verify = 0 /\ calls.check = 0 /\ calls.proxy = 0)
        /\ (resp[1].kind = "redirect" \/ (resp[1].kind = "json" /\ Status \in {401, 403})) =>
              (calls.check = 0 /\ calls.proxy = 0)
        /\ (resp[1].kind = "json" /\ Status = 429) => calls.proxy = 0

(* C25: the stages of the dispatcher run in order and stop at the first
   terminal outcome: the rate-limit check is made only after route
   resolution and the session / API-key authentication and scope
   authorization the route asks for have succeeded, the backend call only
   after the check returned allowed, and a request ended at one stage makes
   no call of a later stage. *)
C25_StagesInOrder ==
    /\ InOrder
    /\ StopsAtFirstOutcome
    /\ calls.check >= 1 => AuthSucceeded

\* C26: a check made with now >= resetTime, the boundary now = resetTime and an
\* exhausted entry included, opens a new window: the entry becomes count = 1,
\* resetTime = now + windowMs and the call returns allowed with
\* remaining = limit - 1.
C26_BoundaryOpensWindow ==
    (/\ result.called
     /\ Defined(result.prior)
     /\ result.at >= result.prior[1].resetTime) =>
        /\ result.allowed
        /\ result.remaining = result.limit - 1
        /\ tracker[result.key] = [count |-> 1, resetTime |-> result.at + windowMs]

\* C27: the request forwarded to the backend carries the inbound request's
\* headers and, when the route's service metadata declares both authHeader and
\* apiKey, the header named authHeader with the value "Bearer <apiKey>".
C27_ForwardedHeaders ==
    Defined(proxy) =>
        LET sent == proxy[1].headers
            inbound == InboundHeaders(req[1])
            sm == routeConfig[1].serviceMetadata
        IN  /\ \A name \in DOMAIN inbound :
                   name \in DOMAIN sent /\ sent[name] = inbound[name]
            /\ (Defined(sm) /\ Defined(sm[1].authHeader) /\ Defined(sm[1].apiKey)) =>
                   /\ sm[1].authHeader[1] \in DOMAIN sent
                   /\ sent[sm[1].authHeader[1]] = "Bearer " \o sm[1].apiKey[1]

\* C28: check(key, limit) changes nothing but the entry of key: the entries of
\* all other keys stay as they were and no other key appears; a rejected call
\* leaves the entry's count and resetTime as they were; an admitted call inside
\* an open window adds exactly 1 to count and leaves resetTime as it was.
CheckFrame(key) ==
    /\ DOMAIN tracker' = DOMAIN tracker \cup {key}
    /\ \A other \in DOMAIN tracker \ {key} : tracker'[other] = tracker[other]
    /\ ~result'.allowed =>
           /\ Has(tracker, key)
           /\ tracker'[key] = tracker[key]
    /\ (result'.allowed /\ Has(tracker, key) /\ now <= tracker[key].resetTime) =>
           /\ tracker'[key].count = tracker[key].count + 1
           /\ tracker'[key].resetTime = tracker[key].resetTime

C28_CheckFrame ==
    [][\A key \in RateKeys, limit \in Limits :
          LimiterCheck(key, limit) => CheckFrame(key)]_vars

\* A second call for a key was admitted inside its open window, later than the
\* call that opened it, while another key had an entry.
C28_Witness ==
    /\ result.called /\ result.allowed
    /\ Defined(result.prior)
    /\ result.at > 0
    /\ result.at <= result.prior[1].resetTime
    /\ tracker[result.key].count = 2
    /\ \E other \in DOMAIN tracker : other # result.key

\* C29: the log request sent for an inbound request is handled as a skipped
\* internal route and causes no further log request: one inbound request
\* leads to at most one log request.
C29_LogChainEnds == chain <= 1

\* C30: every log record the dispatcher emits satisfies the sink's acceptance
\* condition (routeId, serviceId and statusCode present beside path and
\* method), and the sink answers none of them 400 or 404.
C30_LogsAccepted ==
    \A i \in 1..Len(sink) :
        /\ Defined(logs[i].routeId)
        /\ Defined(logs[i].serviceId)
        /\ Defined(logs[i].statusCode)
        /\ sink[i] \notin {"400", "404"}

====
